---- MODULE Spec2Model ----
(***************************************************************************)
(* The actor-critic control loop of rrl/rl.py (ActorCritic, ADHDP,         *)
(* CollectingADHDP) and its Puppy variants of rrl/puppy.py (PuppyHDP,      *)
(* OfflineCollector), as a state machine.                                  *)
(*                                                                         *)
(* One controller object is modelled.  Its class and its configuration     *)
(* are chosen at construction.  Every handler of the object (the per-epoch *)
(* call, the supervisor's event handler, save and load) is one action.     *)
(* A handler is written as an operator from the object graph before the    *)
(* call (a record, "w") to the object graph after it, following the method *)
(* bodies line by line, super() calls included.                            *)
(*                                                                         *)
(* Real numbers are integers here: one unit of an action is 0.2, and the   *)
(* reward noise of PuppyHDP is one unit of reward either way.  The         *)
(* reservoir, the readout, the plant and the policy are collaborators the  *)
(* controller only calls; they are small deterministic stand-ins with the  *)
(* same interface, and every call made to them is written to "log".        *)
(***************************************************************************)
EXTENDS Integers, Sequences, FiniteSets, TLC

VARIABLES
    cls,                        \* the controller's class
    init_steps,                 \* self._init_steps
    tumbled_reward,             \* self._tumbled_reward (PuppyHDP), None or a value
    num_episode,                \* self.num_episode
    num_step,                   \* self.num_step
    a_curr,                     \* self.a_curr
    s_curr,                     \* self.s_curr
    has_tumbled,                \* self.has_tumbled (PuppyHDP)
    supervisor_tumbled_notice,  \* self.supervisor_tumbled_notice
    collector,                  \* self.collector: None or the recorder's identity
    r_mem,                      \* the reservoir's persistent memory
    beta,                       \* the readout's weights, bias first
    policy_action,              \* the action the policy currently plays
    reservoir,                  \* the reservoir's get_input_dim() and reset_states
    raised,                     \* None, or the line of the assertion that failed in
                                \* the constructor
    hook,                       \* None, or the sampling loop the control is in: its
                                \* candidate (_next_action_hook's local a_next) and
                                \* the draws made so far, counted to MaxDraws
    n_collectors,               \* recorders created so far (gives fresh identities)
    snapshot,                   \* the file written by save: None or the pickled object
    ticks,                      \* history: epochs delivered since the last new_episode
    trained,                    \* history: readout.train calls since the last new_episode
    grace,                      \* history: None, or the epochs delivered since a
                                \* tumbled_grace_start found the controller in NORMAL
    log                         \* history: the calls made by the last handler

vars == <<cls, init_steps, tumbled_reward, num_episode, num_step, a_curr, s_curr,
          has_tumbled, supervisor_tumbled_notice, collector, r_mem, beta,
          policy_action, reservoir, raised, hook, n_collectors, snapshot, ticks,
          trained, grace, log>>

----------------------------------------------------------------------------
(* Bounds of the model *)

MaxInitSteps == 2
MaxSteps == 6
MaxEpisodes == 2
MaxInputDim == 3
HookDim == 2
HookMax == 12
MaxDraws == 2

----------------------------------------------------------------------------
(* Values *)

None == <<>>
Some(v) == <<v>>

Classes == {"CollectingADHDP", "PuppyHDP", "OfflineCollector"}
Critics == {"CollectingADHDP", "PuppyHDP"}
Messages == {"reset", "out_of_arena", "tumbled_grace_start", "tumbled", "unknown"}

ActionDim == 1
StateDim == 1

EmptyEpoch == <<>>
Epochs == {<<1>>, <<2>>}
InitialAction == <<5>>
Zeros == [i \in 1..ActionDim |-> 0]

Alpha == 1
Gamma == 1
NormMean == 0
NormScale == 1
Jitter == {-1, 1}
TumbledRewards == {None, Some(-3)}

RECURSIVE SumTo(_, _)
SumTo(f, n) == IF n = 0 THEN 0 ELSE f[n] + SumTo(f, n - 1)
Dot(u, v) == SumTo([i \in 1..Len(u) |-> u[i] * v[i]], Len(u))
Clamp(v, lo, hi) == IF v < lo THEN lo ELSE IF v > hi THEN hi ELSE v

----------------------------------------------------------------------------
(* The log of one handler: every call to a collaborator, numbered in order *)

NewLog(op, epoch, msg, pre) ==
    [op |-> op, epoch |-> epoch, msg |-> msg, time |-> None, pre |-> pre, n |-> 0,
     new_episode |-> <<>>, reset |-> <<>>, reward |-> <<>>, reservoir |-> <<>>,
     train |-> <<>>,
     update |-> <<>>, record |-> <<>>, step |-> <<>>, hook |-> <<>>]

Logged(w, field, entry) ==
    [w EXCEPT !.log = [@ EXCEPT !.n = @ + 1, ![field] = Append(@, entry)]]

----------------------------------------------------------------------------
(* Collaborators *)

\* Plant.reward(epoch): a scalar read from the epoch's sensor samples.
PlantReward(epoch) == IF Len(epoch) = 0 THEN 0 ELSE epoch[Len(epoch)]

\* Plant.state_input(state): the state part of the reservoir input, S x 1.
PlantStateInput(state) == IF Len(state) = 0 THEN <<0>> ELSE <<state[Len(state)]>>

\* Normalization.normalize_value(key, value)
NormalizeValue(a) == [i \in 1..Len(a) |-> (a[i] - NormMean) \div NormScale]

\* The reservoir: one node; its input weights, state columns then action columns.
W_in == <<1, 1>>
ReservoirInitialMemory == 0
Activation(v) == (v % 3) - 1

\* reservoir(r_input, simulate): the node's state for the input, and the memory
\* the reservoir keeps afterwards.
ReservoirApply(mem, r_input, simulate) ==
    LET x == Activation(mem + Dot(W_in, r_input))
    IN  [x |-> x, mem |-> IF simulate THEN mem ELSE x]

\* readout(r_state)
ReadoutApply(b, x) == b[1] + b[2] * x

\* readout.train(x, e): one in-place update of the weights, which saturate.
WeightLimit == 1
ReadoutTrain(b, x, e) ==
    <<Clamp(b[1] + e, -WeightLimit, WeightLimit), Clamp(b[2] + e * x, -WeightLimit, WeightLimit)>>

InitialBeta == <<0, 1>>

----------------------------------------------------------------------------
(* ActorCritic, ADHDP, CollectingADHDP (rl.py) *)

\* policy.initial_action(), and its shape: rows and columns
PolicyInitialAction == InitialAction
InitialActionShape == <<Len(PolicyInitialAction), 1>>

\* policy.action_space_dim()
PolicyActionSpaceDim == ActionDim

\* plant.state_space_dim(); the plant of OfflineCollector is Plant(state_space_dim=0)
PlantStateSpaceDim(c) == IF c = "OfflineCollector" THEN 0 ELSE StateDim

\* policy.update(action_upd)
PolicyUpdate(w, a) ==
    Logged([w EXCEPT !.policy_action = a], "update", [k |-> w.log.n + 1, a |-> a])

\* policy.reset(): undo any policy updates
PolicyReset(w) == [w EXCEPT !.policy_action = PolicyInitialAction]

\* (variant: the action is not reset)
ActorCritic_new_episode_keeps_action(w) ==
    LET v == [w EXCEPT !.num_episode = @ + 1,
                       !.s_curr = EmptyEpoch,
                       !.num_step = 0,
                       !.ticks = 0, !.trained = 0]
    IN  Logged(v, "new_episode", [k |-> w.log.n + 1, before |-> w.num_episode])

ActorCritic_new_episode(w) ==
    LET v == [w EXCEPT !.num_episode = @ + 1,
                       !.a_curr = PolicyInitialAction,
                       !.s_curr = EmptyEpoch,
                       !.num_step = 0,
                       !.ticks = 0, !.trained = 0]
    IN  Logged(v, "new_episode", [k |-> w.log.n + 1, before |-> w.num_episode])

\* reservoir.reset(); the stub reservoir of OfflineCollector has no memory to reset.
ReservoirReset(w) ==
    Logged(IF w.cls = "OfflineCollector" THEN w
           ELSE [w EXCEPT !.r_mem = ReservoirInitialMemory],
           "reset", [k |-> w.log.n + 1])

ADHDP_new_episode(w) == ActorCritic_new_episode(ReservoirReset(w))

\* (variant: a collector is created only when there is none)
CollectingADHDP_new_episode_reuses_collector(w) ==
    LET v == ADHDP_new_episode(w)
    IN  IF v.collector # None THEN v
        ELSE [v EXCEPT !.collector = Some(v.n_collectors + 1), !.n_collectors = @ + 1]

\* PuPy.PuppyCollector(actor=None, expfile=..., headers=...): a new recorder
CollectingADHDP_new_episode(w) ==
    LET v == ADHDP_new_episode(w)
    IN  [v EXCEPT !.collector = Some(v.n_collectors + 1), !.n_collectors = @ + 1]

\* self.collector(ep_write, 0, 1, 1), ep_write the epoch plus the keyword fields
CollectingADHDP_pre_increment_hook(w, epoch, keys, readout) ==
    Logged(w, "record",
           [k |-> w.log.n + 1, coll |-> w.collector, epoch |-> epoch, keys |-> keys,
            readout |-> readout, t |-> <<0, 1, 1>>])

\* (variant: the simulate flag is not passed on to the reservoir)
ADHDP_critic_eval_always_advances(w, state, action, simulate) ==
    LET in_state == PlantStateInput(state)
        action_nrm == NormalizeValue(action)
        r_input == in_state \o action_nrm
        res == ReservoirApply(w.r_mem, r_input, FALSE)
        j == ReadoutApply(w.beta, res.x)
        v == Logged([w EXCEPT !.r_mem = res.mem], "reservoir",
                    [k |-> w.log.n + 1, sim |-> simulate, s |-> state, a |-> action,
                     x |-> res.x, mem |-> res.mem])
    IN  [w |-> v, i |-> r_input, x |-> res.x, j |-> j]

ADHDP_critic_eval(w, state, action, simulate) ==
    LET in_state == PlantStateInput(state)
        action_nrm == NormalizeValue(action)
        r_input == in_state \o action_nrm
        res == ReservoirApply(w.r_mem, r_input, simulate)
        j == ReadoutApply(w.beta, res.x)
        v == Logged([w EXCEPT !.r_mem = res.mem], "reservoir",
                    [k |-> w.log.n + 1, sim |-> simulate, s |-> state, a |-> action,
                     x |-> res.x, mem |-> res.mem])
    IN  [w |-> v, i |-> r_input, x |-> res.x, j |-> j]

ADHDP_critic_deriv(w, r_state) ==
    LET e == 1 - r_state * r_state
    IN  [i \in 1..ActionDim |-> (w.beta[2] * (e * W_in[StateDim + i])) \div NormScale]

\* The default postprocessing hook: the proposed action unchanged.
ActorCritic_next_action_hook(a_next) == a_next

\* self.readout.train(x_curr, e=err)
ADHDP_train_once(w, x, err) ==
    Logged([w EXCEPT !.beta = ReadoutTrain(w.beta, x, err), !.trained = @ + 1], "train",
           [k |-> w.log.n + 1, x |-> x, e |-> err])

\* (variant: the update is applied twice)
ADHDP_train_twice(w, x, err) == ADHDP_train_once(ADHDP_train_once(w, x, err), x, err)

ADHDP_train(w, x, err) == ADHDP_train_once(w, x, err)

\* (variant: the current value is added)
TDError_adds_current(reward, gamma, j_next, j_curr) == reward + gamma * j_next + j_curr

TDError(reward, gamma, j_next, j_curr) == reward + gamma * j_next - j_curr

StepKeys == {"reward", "deriv", "err", "readout", "gamma", "i_curr", "x_curr", "j_curr",
             "a_curr", "i_next", "x_next", "j_next", "a_next"}

\* (variant: the action moves against the gradient)
ADHDP_step_descends(w, s_c, s_n, a_c, reward) ==
    LET c == ADHDP_critic_eval(w, s_c, a_c, FALSE)
        deriv == ADHDP_critic_deriv(c.w, c.x)
        a_next == ActorCritic_next_action_hook([i \in 1..Len(a_c) |-> a_c[i] - Alpha * deriv[i]])
        n == ADHDP_critic_eval(c.w, s_n, a_next, TRUE)
        err == TDError(reward, Gamma, n.j, c.j)
        t == ADHDP_train(n.w, c.x, err)
        h == CollectingADHDP_pre_increment_hook(t, s_n, StepKeys, Some(t.beta))
    IN  [w |-> h, ret |-> a_next, err |-> Some(err)]

\* (variant: the record is written before the readout is trained)
ADHDP_step_records_first(w, s_c, s_n, a_c, reward) ==
    LET c == ADHDP_critic_eval(w, s_c, a_c, FALSE)
        deriv == ADHDP_critic_deriv(c.w, c.x)
        a_next == ActorCritic_next_action_hook([i \in 1..Len(a_c) |-> a_c[i] + Alpha * deriv[i]])
        n == ADHDP_critic_eval(c.w, s_n, a_next, TRUE)
        err == TDError(reward, Gamma, n.j, c.j)
        h == CollectingADHDP_pre_increment_hook(n.w, s_n, StepKeys, Some(n.w.beta))
        t == ADHDP_train(h, c.x, err)
    IN  [w |-> t, ret |-> a_next, err |-> Some(err)]

ADHDP_step(w, s_c, s_n, a_c, reward) ==
    LET c == ADHDP_critic_eval(w, s_c, a_c, FALSE)
        deriv == ADHDP_critic_deriv(c.w, c.x)
        a_next == ActorCritic_next_action_hook([i \in 1..Len(a_c) |-> a_c[i] + Alpha * deriv[i]])
        n == ADHDP_critic_eval(c.w, s_n, a_next, TRUE)
        err == TDError(reward, Gamma, n.j, c.j)
        t == ADHDP_train(n.w, c.x, err)
        h == CollectingADHDP_pre_increment_hook(t, s_n, StepKeys, Some(t.beta))
    IN  [w |-> h, ret |-> a_next, err |-> Some(err)]

ActorCritic_init_episode(w, epoch) ==
    CollectingADHDP_pre_increment_hook([w EXCEPT !.s_curr = epoch], epoch, {}, None)

----------------------------------------------------------------------------
(* PuppyHDP (puppy.py) *)

\* (variant: the tumbled flag survives the reset)
PuppyHDP_new_episode_keeps_frozen(w) ==
    LET v == CollectingADHDP_new_episode(w)
    IN  [v EXCEPT !.supervisor_tumbled_notice = 0]

PuppyHDP_new_episode(w) ==
    LET v == CollectingADHDP_new_episode(w)
    IN  [v EXCEPT !.has_tumbled = FALSE, !.supervisor_tumbled_notice = 0]

\* (variant: the tumble is confirmed one epoch later)
PuppyHDP_step_confirms_late(w, s_c, s_n, a_c, reward, jitter) ==
    IF w.has_tumbled
    THEN [w |-> w, ret |-> [i \in 1..Len(a_c) |-> 0], err |-> None]
    ELSE LET confirmed == w.supervisor_tumbled_notice > 2
             r1 == IF confirmed /\ w.tumbled_reward # None THEN w.tumbled_reward[1] ELSE reward
             w1 == IF w.supervisor_tumbled_notice > 0
                   THEN [w EXCEPT !.has_tumbled = IF confirmed THEN TRUE ELSE @,
                                  !.supervisor_tumbled_notice = @ + 1]
                   ELSE w
         IN  ADHDP_step(w1, s_c, s_n, a_c, r1 + jitter)

\* (variant: a tumbled controller keeps stepping)
PuppyHDP_step_never_freezes(w, s_c, s_n, a_c, reward, jitter) ==
    LET confirmed == w.supervisor_tumbled_notice > 1
        r1 == IF confirmed /\ w.tumbled_reward # None THEN w.tumbled_reward[1] ELSE reward
        w1 == IF w.supervisor_tumbled_notice > 0
              THEN [w EXCEPT !.has_tumbled = IF confirmed THEN TRUE ELSE @,
                             !.supervisor_tumbled_notice = @ + 1]
              ELSE w
    IN  ADHDP_step(w1, s_c, s_n, a_c, r1 + jitter)

\* (variant: the flag is set only together with the override)
PuppyHDP_step_flags_with_override(w, s_c, s_n, a_c, reward, jitter) ==
    IF w.has_tumbled
    THEN [w |-> w, ret |-> [i \in 1..Len(a_c) |-> 0], err |-> None]
    ELSE LET confirmed == w.supervisor_tumbled_notice > 1 /\ w.tumbled_reward # None
             r1 == IF confirmed THEN w.tumbled_reward[1] ELSE reward
             w1 == IF w.supervisor_tumbled_notice > 0
                   THEN [w EXCEPT !.has_tumbled = IF confirmed THEN TRUE ELSE @,
                                  !.supervisor_tumbled_notice = @ + 1]
                   ELSE w
         IN  ADHDP_step(w1, s_c, s_n, a_c, r1 + jitter)

PuppyHDP_step(w, s_c, s_n, a_c, reward, jitter) ==
    IF w.has_tumbled
    THEN [w |-> w, ret |-> [i \in 1..Len(a_c) |-> 0], err |-> None]
    ELSE LET confirmed == w.supervisor_tumbled_notice > 1
             r1 == IF confirmed /\ w.tumbled_reward # None THEN w.tumbled_reward[1] ELSE reward
             w1 == IF w.supervisor_tumbled_notice > 0
                   THEN [w EXCEPT !.has_tumbled = IF confirmed THEN TRUE ELSE @,
                                  !.supervisor_tumbled_notice = @ + 1]
                   ELSE w
         IN  ADHDP_step(w1, s_c, s_n, a_c, r1 + jitter)

InitKeys == {"x_curr", "i_curr", "a_next", "a_curr"}

PuppyHDP_init_episode(w, epoch) ==
    LET v == IF w.num_step > 2
             THEN LET in_state == PlantStateInput(w.s_curr)
                      a_curr_nrm == NormalizeValue(w.a_curr)
                      i_curr == in_state \o a_curr_nrm
                      res == ReservoirApply(w.r_mem, i_curr, FALSE)
                      u == Logged([w EXCEPT !.r_mem = res.mem], "reservoir",
                                  [k |-> w.log.n + 1, sim |-> FALSE, s |-> w.s_curr,
                                   a |-> w.a_curr, x |-> res.x, mem |-> res.mem])
                  IN  CollectingADHDP_pre_increment_hook(u, epoch, InitKeys, None)
             ELSE w
    IN  [v EXCEPT !.s_curr = epoch]

\* (variant: every tumbled_grace_start counts)
PuppyHDP_event_handler_counts_notices(w, msg) ==
    LET w1 == IF msg = "tumbled_grace_start"
              THEN [w EXCEPT !.supervisor_tumbled_notice = @ + 1]
              ELSE w
    IN  IF msg = "reset" THEN PuppyHDP_new_episode(PolicyReset(w1)) ELSE w1

\* (variant: a tumbled_grace_start starts over, clearing the tumbled flag)
PuppyHDP_event_handler_unfreezes(w, msg) ==
    LET w1 == IF msg = "tumbled_grace_start"
              THEN [w EXCEPT !.supervisor_tumbled_notice = 1, !.has_tumbled = FALSE]
              ELSE w
    IN  IF msg = "reset" THEN PuppyHDP_new_episode(PolicyReset(w1)) ELSE w1

PuppyHDP_event_handler(w, msg) ==
    LET w1 == IF msg = "tumbled_grace_start"
              THEN [w EXCEPT !.supervisor_tumbled_notice = 1]
              ELSE w
    IN  IF msg = "reset" THEN PuppyHDP_new_episode(PolicyReset(w1)) ELSE w1

----------------------------------------------------------------------------
(* ActorCritic.__call__ with the step and init_episode of the object's class *)

Step(w, s_c, s_n, a_c, reward, jitter) ==
    IF w.cls = "PuppyHDP"
    THEN PuppyHDP_step(w, s_c, s_n, a_c, reward, jitter)
    ELSE ADHDP_step(w, s_c, s_n, a_c, reward)

InitEpisode(w, epoch) ==
    IF w.cls = "PuppyHDP"
    THEN PuppyHDP_init_episode(w, epoch)
    ELSE ActorCritic_init_episode(w, epoch)

\* (variant: the reward is taken from the incoming epoch)
ActorCritic_cycle_rewards_incoming(w, epoch, jitter) ==
    LET reward == PlantReward(epoch)
        w1 == Logged(w, "reward", [k |-> w.log.n + 1, s |-> epoch, value |-> reward])
        r == Step(w1, w.s_curr, epoch, w.a_curr, reward, jitter)
        w2 == Logged(r.w, "step",
                     [k |-> r.w.log.n + 1, s_curr |-> w.s_curr, s_next |-> epoch,
                      a_curr |-> w.a_curr, reward |-> reward, a_next |-> r.ret,
                      err |-> r.err])
        w3 == [w2 EXCEPT !.a_curr = r.ret, !.s_curr = epoch, !.num_step = @ + 1]
    IN  PolicyUpdate(w3, r.ret)

\* (variant: the policy is updated with the action of the previous epoch)
ActorCritic_cycle_updates_stale(w, epoch, jitter) ==
    LET reward == PlantReward(w.s_curr)
        w1 == Logged(w, "reward", [k |-> w.log.n + 1, s |-> w.s_curr, value |-> reward])
        r == Step(w1, w.s_curr, epoch, w.a_curr, reward, jitter)
        w2 == Logged(r.w, "step",
                     [k |-> r.w.log.n + 1, s_curr |-> w.s_curr, s_next |-> epoch,
                      a_curr |-> w.a_curr, reward |-> reward, a_next |-> r.ret,
                      err |-> r.err])
        w3 == [w2 EXCEPT !.a_curr = r.ret, !.s_curr = epoch, !.num_step = @ + 1]
    IN  PolicyUpdate(w3, w.a_curr)

\* (variant: a tumbled controller only counts the epoch)
ActorCritic_cycle_skips_frozen(w, epoch, jitter) ==
    LET reward == PlantReward(w.s_curr)
        w1 == Logged(w, "reward", [k |-> w.log.n + 1, s |-> w.s_curr, value |-> reward])
        r == Step(w1, w.s_curr, epoch, w.a_curr, reward, jitter)
        w2 == Logged(r.w, "step",
                     [k |-> r.w.log.n + 1, s_curr |-> w.s_curr, s_next |-> epoch,
                      a_curr |-> w.a_curr, reward |-> reward, a_next |-> r.ret,
                      err |-> r.err])
        w3 == [w2 EXCEPT !.a_curr = r.ret, !.s_curr = epoch, !.num_step = @ + 1]
    IN  IF w.has_tumbled
        THEN [w2 EXCEPT !.num_step = @ + 1]
        ELSE PolicyUpdate(w3, r.ret)

\* The actor-critic cycle of __call__, after the warm-up.
ActorCritic_cycle(w, epoch, jitter) ==
    LET reward == PlantReward(w.s_curr)
        w1 == Logged(w, "reward", [k |-> w.log.n + 1, s |-> w.s_curr, value |-> reward])
        r == Step(w1, w.s_curr, epoch, w.a_curr, reward, jitter)
        w2 == Logged(r.w, "step",
                     [k |-> r.w.log.n + 1, s_curr |-> w.s_curr, s_next |-> epoch,
                      a_curr |-> w.a_curr, reward |-> reward, a_next |-> r.ret,
                      err |-> r.err])
        w3 == [w2 EXCEPT !.a_curr = r.ret, !.s_curr = epoch, !.num_step = @ + 1]
    IN  PolicyUpdate(w3, r.ret)

\* (variant: the warm-up lasts init_steps epochs)
ActorCritic_call_short_warmup(w, epoch, jitter) ==
    IF w.num_step < w.init_steps
    THEN InitEpisode([w EXCEPT !.num_step = @ + 1], epoch)
    ELSE ActorCritic_cycle(w, epoch, jitter)

ActorCritic_call(w, epoch, jitter) ==
    IF w.num_step <= w.init_steps
    THEN InitEpisode([w EXCEPT !.num_step = @ + 1], epoch)
    ELSE ActorCritic_cycle(w, epoch, jitter)

----------------------------------------------------------------------------
(* OfflineCollector (puppy.py) *)

AmpMin == 1
AmpMax == 10
SpreadFrom == 5
MaxSpread == 2
Noise == {-1, 0, 1}

Max(a) == CHOOSE m \in {a[i] : i \in 1..Len(a)} : \A i \in 1..Len(a) : a[i] <= m
Min(a) == CHOOSE m \in {a[i] : i \in 1..Len(a)} : \A i \in 1..Len(a) : a[i] >= m
Ptp(a) == Max(a) - Min(a)

\* (variant: the spread of the candidate is not looked at)
Rejected_ignores_spread(a) ==
    \/ \E i \in 1..Len(a) : a[i] < AmpMin
    \/ \E i \in 1..Len(a) : a[i] > AmpMax

\* The condition of the sampling loop: the candidate is rejected.
Rejected(a) ==
    \/ \E i \in 1..Len(a) : a[i] < AmpMin
    \/ \E i \in 1..Len(a) : a[i] > AmpMax
    \/ (\E i \in 1..Len(a) : a[i] > SpreadFrom) /\ Ptp(a) > MaxSpread

\* self.a_curr + np.random.normal(0.0, 0.15, size=self.a_curr.shape)
Draws(a, noise) == {[i \in 1..Len(a) |-> a[i] + d[i]] : d \in [1..Len(a) -> noise]}

\* The loop starts from the all-zero candidate and draws until a candidate is not
\* rejected; "sample" is the draw it ends with.
OfflineCollector_next_action_hook(w, sample) ==
    [w |-> Logged(w, "hook", [k |-> w.log.n + 1, a |-> w.a_curr, ret |-> sample]),
     ret |-> sample]

\* The call would invoke the sampling hook.
OfflineCollector_samples(w, epoch) ==
    /\ Len(epoch) # 0
    /\ w.num_step > w.init_steps
    /\ w.supervisor_tumbled_notice <= 2

OfflineCollector_new_episode(w) ==
    LET v == CollectingADHDP_new_episode(w)
    IN  [v EXCEPT !.supervisor_tumbled_notice = 0]

\* (variant: the empty epoch is not counted)
OfflineCollector_empty_epoch_uncounted(w) ==
    CollectingADHDP_pre_increment_hook(w, EmptyEpoch, {"init_step"}, None)

\* (variant: the policy is updated as on any other epoch)
OfflineCollector_empty_epoch_updates_policy(w) ==
    LET v == [w EXCEPT !.num_step = @ + 1]
    IN  PolicyUpdate(CollectingADHDP_pre_increment_hook(v, EmptyEpoch, {"init_step"}, None),
                     w.a_curr)

\* The first, empty epoch of a run.
OfflineCollector_empty_epoch(w) ==
    LET v == [w EXCEPT !.num_step = @ + 1]
    IN  CollectingADHDP_pre_increment_hook(v, EmptyEpoch, {"init_step"}, None)

\* (variant: the walk stops one epoch earlier)
OfflineCollector_call_stops_early(w, epoch, sample) ==
    IF Len(epoch) = 0
    THEN OfflineCollector_empty_epoch(w)
    ELSE LET r == IF w.num_step <= w.init_steps
                  THEN [w |-> w, ret |-> w.a_curr]
                  ELSE IF w.supervisor_tumbled_notice > 1
                  THEN [w |-> [w EXCEPT !.supervisor_tumbled_notice = @ + 1],
                        ret |-> [i \in 1..Len(w.a_curr) |-> 0]]
                  ELSE IF w.supervisor_tumbled_notice > 0
                  THEN LET h == OfflineCollector_next_action_hook(w, sample)
                       IN  [w |-> [h.w EXCEPT !.supervisor_tumbled_notice = @ + 1],
                            ret |-> h.ret]
                  ELSE OfflineCollector_next_action_hook(w, sample)
             w1 == CollectingADHDP_pre_increment_hook(r.w, epoch, {"a_curr", "a_next"}, None)
             w2 == [w1 EXCEPT !.a_curr = r.ret, !.num_step = @ + 1]
         IN  PolicyUpdate(w2, r.ret)

OfflineCollector_call(w, epoch, sample) ==
    IF Len(epoch) = 0
    THEN OfflineCollector_empty_epoch(w)
    ELSE LET r == IF w.num_step <= w.init_steps
                  THEN [w |-> w, ret |-> w.a_curr]
                  ELSE IF w.supervisor_tumbled_notice > 2
                  THEN [w |-> [w EXCEPT !.supervisor_tumbled_notice = @ + 1],
                        ret |-> [i \in 1..Len(w.a_curr) |-> 0]]
                  ELSE IF w.supervisor_tumbled_notice > 0
                  THEN LET h == OfflineCollector_next_action_hook(w, sample)
                       IN  [w |-> [h.w EXCEPT !.supervisor_tumbled_notice = @ + 1],
                            ret |-> h.ret]
                  ELSE OfflineCollector_next_action_hook(w, sample)
             w1 == CollectingADHDP_pre_increment_hook(r.w, epoch, {"a_curr", "a_next"}, None)
             w2 == [w1 EXCEPT !.a_curr = r.ret, !.num_step = @ + 1]
         IN  PolicyUpdate(w2, r.ret)

\* (variant: a tumbled message is taken for the start of the grace period)
OfflineCollector_event_handler_hears_tumbled(w, msg) ==
    LET w1 == IF msg \in {"tumbled_grace_start", "tumbled"}
              THEN CollectingADHDP_pre_increment_hook(
                       [w EXCEPT !.supervisor_tumbled_notice = 1], EmptyEpoch, {"tumbled"}, None)
              ELSE w
    IN  IF msg = "reset" THEN OfflineCollector_new_episode(PolicyReset(w1)) ELSE w1

OfflineCollector_event_handler(w, msg) ==
    LET w1 == IF msg = "tumbled_grace_start"
              THEN CollectingADHDP_pre_increment_hook(
                       [w EXCEPT !.supervisor_tumbled_notice = 1], EmptyEpoch, {"tumbled"}, None)
              ELSE w
    IN  IF msg = "reset" THEN OfflineCollector_new_episode(PolicyReset(w1)) ELSE w1

\* event_handler of the object's class
event_handler(w, msg) ==
    IF w.cls = "PuppyHDP"
    THEN PuppyHDP_event_handler(w, msg)
    ELSE OfflineCollector_event_handler(w, msg)

----------------------------------------------------------------------------
(* Construction, save and load *)

new_episode(w) ==
    IF w.cls = "PuppyHDP" THEN PuppyHDP_new_episode(w)
    ELSE IF w.cls = "OfflineCollector" THEN OfflineCollector_new_episode(w)
    ELSE CollectingADHDP_new_episode(w)

\* The fields set by the constructors before ActorCritic.__init__ calls new_episode.
Unborn(c, i, r) ==
    [cls |-> c, init_steps |-> i, tumbled_reward |-> r,
     num_episode |-> 0, num_step |-> 0, a_curr |-> Zeros, s_curr |-> EmptyEpoch,
     has_tumbled |-> FALSE, supervisor_tumbled_notice |-> 0, collector |-> None,
     r_mem |-> ReservoirInitialMemory, beta |-> InitialBeta,
     policy_action |-> PolicyInitialAction]

\* The reservoirs a constructor may be handed.
InputDims == 1..MaxInputDim
Reservoirs == [input_dim : InputDims, reset_states : BOOLEAN]

\* The stub reservoir OfflineCollector.__init__ builds for itself.
Phony == [input_dim |-> PolicyActionSpaceDim, reset_states |-> FALSE]

\* assert cond, at the given line of rl.py: the first failing one ends the constructor.
Asserted(w, line, cond) ==
    IF w.raised = None /\ ~cond THEN [w EXCEPT !.raised = Some(line)] ELSE w

\* ActorCritic.__init__ from self.num_episode = 0 on.
ActorCritic_init(w) ==
    LET v == new_episode([w EXCEPT !.num_episode = 0])
        a == Asserted(v, 204, InitialActionShape[1] >= 1)
    IN  Asserted(a, 205, InitialActionShape[2] = 1)

\* (variant: only the lower bound on the input dimension is checked)
ADHDP_init_accepts_wider(w) ==
    LET v == ActorCritic_init(w)
        a == Asserted(v, 354, v.reservoir.reset_states = FALSE)
    IN  Asserted(a, 358, v.reservoir.input_dim >= InitialActionShape[1])

\* ADHDP.__init__: the parent's constructor, then the assumptions on the reservoir.
ADHDP_init(w) ==
    LET v == ActorCritic_init(w)
        a == Asserted(v, 354, v.reservoir.reset_states = FALSE)
        b == Asserted(a, 355, v.reservoir.input_dim
                                  = PolicyActionSpaceDim + PlantStateSpaceDim(v.cls))
    IN  Asserted(b, 358, v.reservoir.input_dim >= InitialActionShape[1])

\* The object a constructor returns, or the object as the failed assertion left it.
Constructed(c, i, r, res) ==
    ADHDP_init(
        [cls |-> c, init_steps |-> i, tumbled_reward |-> r,
         num_episode |-> 0, num_step |-> 0, a_curr |-> Zeros, s_curr |-> EmptyEpoch,
         has_tumbled |-> FALSE, supervisor_tumbled_notice |-> 0, collector |-> None,
         r_mem |-> ReservoirInitialMemory, beta |-> InitialBeta,
         policy_action |-> PolicyInitialAction,
         reservoir |-> IF c = "OfflineCollector" THEN Phony ELSE res, raised |-> None,
         hook |-> None,
         n_collectors |-> 0, snapshot |-> None,
         ticks |-> 0, trained |-> 0, grace |-> None,
         log |-> NewLog("construct", EmptyEpoch, "", Unborn(c, i, r))])

\* What pickle writes: the object and everything it refers to.
Pickled(w) ==
    [cls |-> w.cls, init_steps |-> w.init_steps, tumbled_reward |-> w.tumbled_reward,
     num_episode |-> w.num_episode, num_step |-> w.num_step, a_curr |-> w.a_curr,
     s_curr |-> w.s_curr, has_tumbled |-> w.has_tumbled,
     supervisor_tumbled_notice |-> w.supervisor_tumbled_notice, collector |-> w.collector,
     r_mem |-> w.r_mem, beta |-> w.beta, policy_action |-> w.policy_action]

ActorCritic_save(w) == [w EXCEPT !.snapshot = Some(Pickled(w))]

\* (variant: the collector is not put back after pickling)
CollectingADHDP_save_loses_collector(w) ==
    ActorCritic_save([w EXCEPT !.collector = None])

CollectingADHDP_save(w) ==
    LET held == w.collector
        v == ActorCritic_save([w EXCEPT !.collector = None])
    IN  [v EXCEPT !.collector = held]

\* (variant: the loaded object is returned as it was pickled)
ActorCritic_load_skips_new_episode(w) ==
    LET o == w.snapshot[1]
    IN  [w EXCEPT !.cls = o.cls, !.init_steps = o.init_steps,
                  !.tumbled_reward = o.tumbled_reward, !.num_episode = o.num_episode,
                  !.num_step = o.num_step, !.a_curr = o.a_curr, !.s_curr = o.s_curr,
                  !.has_tumbled = o.has_tumbled,
                  !.supervisor_tumbled_notice = o.supervisor_tumbled_notice,
                  !.collector = o.collector, !.r_mem = o.r_mem, !.beta = o.beta,
                  !.policy_action = o.policy_action]

ActorCritic_load(w) ==
    LET o == w.snapshot[1]
    IN  new_episode(
            [w EXCEPT !.cls = o.cls, !.init_steps = o.init_steps,
                      !.tumbled_reward = o.tumbled_reward, !.num_episode = o.num_episode,
                      !.num_step = o.num_step, !.a_curr = o.a_curr, !.s_curr = o.s_curr,
                      !.has_tumbled = o.has_tumbled,
                      !.supervisor_tumbled_notice = o.supervisor_tumbled_notice,
                      !.collector = o.collector, !.r_mem = o.r_mem, !.beta = o.beta,
                      !.policy_action = o.policy_action])

----------------------------------------------------------------------------
(* The state machine *)

Self ==
    [cls |-> cls, init_steps |-> init_steps, tumbled_reward |-> tumbled_reward,
     num_episode |-> num_episode, num_step |-> num_step, a_curr |-> a_curr,
     s_curr |-> s_curr, has_tumbled |-> has_tumbled,
     supervisor_tumbled_notice |-> supervisor_tumbled_notice, collector |-> collector,
     r_mem |-> r_mem, beta |-> beta, policy_action |-> policy_action,
     reservoir |-> reservoir, raised |-> raised, hook |-> hook,
     n_collectors |-> n_collectors, snapshot |-> snapshot,
     ticks |-> ticks, trained |-> trained, grace |-> grace, log |-> log]

\* The object graph as a handler finds it, with a fresh log.
Entered(op, epoch, msg) == [Self EXCEPT !.log = NewLog(op, epoch, msg, Pickled(Self))]

Normal(w) == w.supervisor_tumbled_notice = 0 /\ ~w.has_tumbled

\* An epoch is delivered: one more tick, also since the grace start (counted to 2).
Ticked(w) ==
    [w EXCEPT !.ticks = @ + 1,
              !.grace = IF @ = None THEN None
                        ELSE Some([@[1] EXCEPT !.ticks = IF @ < 2 THEN @ + 1 ELSE @])]

\* A message is delivered: a tumbled_grace_start in NORMAL starts the count, any
\* other message ends it.
Notified(w, msg) ==
    [w EXCEPT !.grace = IF msg = "tumbled_grace_start" /\ Normal(w)
                        THEN Some([ticks |-> 0, warm |-> w.num_step <= w.init_steps])
                        ELSE None]

Becomes(w) ==
    /\ cls' = w.cls
    /\ init_steps' = w.init_steps
    /\ tumbled_reward' = w.tumbled_reward
    /\ num_episode' = w.num_episode
    /\ num_step' = w.num_step
    /\ a_curr' = w.a_curr
    /\ s_curr' = w.s_curr
    /\ has_tumbled' = w.has_tumbled
    /\ supervisor_tumbled_notice' = w.supervisor_tumbled_notice
    /\ collector' = w.collector
    /\ r_mem' = w.r_mem
    /\ beta' = w.beta
    /\ policy_action' = w.policy_action
    /\ reservoir' = w.reservoir
    /\ raised' = w.raised
    /\ hook' = w.hook
    /\ n_collectors' = w.n_collectors
    /\ snapshot' = w.snapshot
    /\ ticks' = w.ticks
    /\ trained' = w.trained
    /\ grace' = w.grace
    /\ log' = w.log

Is(w) ==
    /\ cls = w.cls
    /\ init_steps = w.init_steps
    /\ tumbled_reward = w.tumbled_reward
    /\ num_episode = w.num_episode
    /\ num_step = w.num_step
    /\ a_curr = w.a_curr
    /\ s_curr = w.s_curr
    /\ has_tumbled = w.has_tumbled
    /\ supervisor_tumbled_notice = w.supervisor_tumbled_notice
    /\ collector = w.collector
    /\ r_mem = w.r_mem
    /\ beta = w.beta
    /\ policy_action = w.policy_action
    /\ reservoir = w.reservoir
    /\ raised = w.raised
    /\ hook = w.hook
    /\ n_collectors = w.n_collectors
    /\ snapshot = w.snapshot
    /\ ticks = w.ticks
    /\ trained = w.trained
    /\ grace = w.grace
    /\ log = w.log

\* The constructor has returned an object.
Built == raised = None

Init ==
    \E c \in Classes, i \in 0..MaxInitSteps, r \in TumbledRewards, res \in Reservoirs :
        /\ r # None => c = "PuppyHDP"
        /\ c = "OfflineCollector" => res = Phony
        /\ Is(Constructed(c, i, r, res))

\* __call__(epoch, time_start_ms, time_end_ms, step_size_ms) is entered.
Called(epoch, time) == [Entered("tick", epoch, "") EXCEPT !.log.time = Some(time)]

\* The control loop delivers one epoch to a critic.
TickWith(epochs, jitters, times) ==
    /\ Built
    /\ cls \in Critics
    /\ num_step < MaxSteps
    /\ \E epoch \in epochs, jitter \in jitters, time \in times :
        /\ Len(epoch) = 0 => num_step = 0
        /\ Becomes(ActorCritic_call(Ticked(Called(epoch, time)), epoch, jitter))

\* The control loop delivers one epoch to the exploration sampler.
SampleWith(epochs, noise, times) ==
    /\ Built
    /\ cls = "OfflineCollector"
    /\ num_step < MaxSteps
    /\ \E epoch \in epochs, time \in times :
        /\ Len(epoch) = 0 => num_step = 0
        /\ LET w == Ticked(Called(epoch, time))
           IN  IF OfflineCollector_samples(w, epoch)
               THEN \E sample \in Draws(a_curr, noise) :
                        /\ ~Rejected(sample)
                        /\ Becomes(OfflineCollector_call(w, epoch, sample))
               ELSE Becomes(OfflineCollector_call(w, epoch, Zeros))

\* Every epoch the loop may deliver.
AllEpochs == Epochs \cup {EmptyEpoch}

\* The time ranges (time_start_ms, time_end_ms, step_size_ms) the loop may pass.
TimeRanges == {<<0, 1, 1>>, <<20, 40, 1>>}

Tick == TickWith(AllEpochs, Jitter, TimeRanges)

Sample == SampleWith(AllEpochs, Noise, TimeRanges)

\* The supervisor sends a message between two epochs.
Event ==
    /\ Built
    /\ cls \in {"PuppyHDP", "OfflineCollector"}
    /\ \E msg \in Messages :
        /\ msg = "reset" => n_collectors < MaxEpisodes
        /\ Becomes(event_handler(Notified(Entered("event", EmptyEpoch, msg), msg), msg))

Next == Tick \/ Sample \/ Event

Spec == Init /\ [][Next]_vars

----------------------------------------------------------------------------
(* The state machine with save and load, on one epoch value and one noise value *)

QuietEpochs == {<<1>>, EmptyEpoch}
QuietJitter == {1}
QuietNoise == {1}
QuietTimes == {<<20, 40, 1>>}

QuietTick == TickWith(QuietEpochs, QuietJitter, QuietTimes)

QuietSample == SampleWith(QuietEpochs, QuietNoise, QuietTimes)

Save ==
    /\ Built
    /\ snapshot = None
    /\ Becomes(CollectingADHDP_save(Entered("save", EmptyEpoch, "")))

Load ==
    /\ Built
    /\ snapshot # None
    /\ n_collectors < MaxEpisodes
    /\ LET w == Entered("load", EmptyEpoch, "")
       IN  Becomes(ActorCritic_load([w EXCEPT !.log.pre = w.snapshot[1], !.grace = None]))

PersistNext == QuietTick \/ QuietSample \/ Event \/ Save \/ Load

PersistSpec == Init /\ [][PersistNext]_vars

----------------------------------------------------------------------------
(* The sampling loop of OfflineCollector._next_action_hook, one iteration at *)
(* a time, on actions of HookDim components; the walk starts anywhere.       *)

HookActions == [1..HookDim -> 0..HookMax]

HookInit ==
    \E a \in HookActions :
        Is([Constructed("OfflineCollector", 0, None, Phony) EXCEPT !.a_curr = a])

\* The hook is entered: a_next = np.zeros(self.a_curr.shape)
HookCall ==
    /\ hook = None
    /\ Becomes([Entered("hook", EmptyEpoch, "") EXCEPT
                    !.hook = Some([a_next |-> [i \in 1..Len(a_curr) |-> 0], draws |-> 0])])

\* The draws around a_curr, and those of them that are not rejected.
Candidates == Draws(a_curr, Noise)
FeasibleCandidates == {sample \in Candidates : ~Rejected(sample)}

\* The loop condition holds: one more draw around a_curr, out of "samples".
DrawFrom(samples) ==
    /\ hook # None
    /\ Rejected(hook[1].a_next)
    /\ \E sample \in samples :
        Becomes([Self EXCEPT
                    !.hook = Some([a_next |-> sample,
                                   draws |-> IF hook[1].draws < MaxDraws
                                             THEN hook[1].draws + 1 ELSE MaxDraws])])

HookDraw == DrawFrom(Candidates)

\* (variant: the loop gives up after MaxDraws draws and returns the last one)
HookReturn_gives_up ==
    /\ hook # None
    /\ ~Rejected(hook[1].a_next) \/ hook[1].draws = MaxDraws
    /\ Becomes([OfflineCollector_next_action_hook(Self, hook[1].a_next).w EXCEPT
                    !.a_curr = hook[1].a_next, !.hook = None])

\* The loop condition fails: the candidate is returned, and the caller stores it.
HookReturn ==
    /\ hook # None
    /\ ~Rejected(hook[1].a_next)
    /\ Becomes([OfflineCollector_next_action_hook(Self, hook[1].a_next).w EXCEPT
                    !.a_curr = hook[1].a_next, !.hook = None])

HookNext == HookCall \/ HookDraw \/ HookReturn

HookSpec == HookInit /\ [][HookNext]_vars

\* Some draw around a is not rejected.
Feasible(a) == \E sample \in Draws(a, Noise) : ~Rejected(sample)

\* One call of the hook from starting actions whose components are the ends of
\* the ranges the loop condition compares with: below the amplitudes, the two
\* amplitude bounds, the level from which the spread counts and one spread above
\* it, and the largest starting value.  Rejected and Draws do not depend on the
\* order of the components, so the starting actions are taken up to reordering.
HookStarts == {0, AmpMin, SpreadFrom, SpreadFrom + MaxSpread, AmpMax, HookMax}
HookAscending ==
    {a \in [1..HookDim -> HookStarts] : \A i \in 1..(HookDim - 1) : a[i] <= a[i + 1]}

HookOnceInit ==
    \E a \in HookAscending :
        Is([Constructed("OfflineCollector", 0, None, Phony) EXCEPT !.a_curr = a])

HookFirstCall == HookCall /\ log.op = "construct"

\* A draw that is not rejected.
FeasibleDraw == DrawFrom(FeasibleCandidates)

HookOnceNext == HookFirstCall \/ HookDraw \/ HookReturn

\* The loop keeps running (the thread is not stopped inside the hook), and a
\* sampler that can draw an acceptable candidate again and again eventually does.
HookFairness == WF_vars(HookReturn) /\ WF_vars(FeasibleDraw)

HookFairSpec == HookOnceInit /\ [][HookOnceNext]_vars /\ HookFairness

----------------------------------------------------------------------------
(* Properties.  "log" holds the last handler: its kind (op), its input (epoch *)
(* or msg), the object as the handler found it (pre) and the calls it made.   *)

IsTick == log.op = "tick"
IsReset == log.op = "event" /\ log.msg = "reset"
\* The handlers that call new_episode: the constructor, a reset message, load.
StartsEpisode == log.op \in {"construct", "load"} \/ IsReset
CriticTick == IsTick /\ cls \in Critics
\* A tick of a critic during the warm-up, and one after it.
WarmupTick == CriticTick /\ log.pre.num_step <= init_steps
CycleTick == CriticTick /\ log.pre.num_step > init_steps
\* A tick after the warm-up that found the tumbled flag set, and one that did not.
FrozenTick == CycleTick /\ log.pre.has_tumbled
StepTick == CycleTick /\ ~log.pre.has_tumbled
\* Constructed, never reset or reloaded, and no tumble announced.
Fresh == num_episode = 1 /\ supervisor_tumbled_notice = 0

\* C1: every new_episode() (constructor, reset message, load) raises num_episode
\* by exactly 1 over the value the object had, and leaves num_step = 0, a_curr the
\* policy's initial action and s_curr empty; no other handler calls it.
C1_NewEpisode ==
    /\ StartsEpisode =>
        /\ Len(log.new_episode) = 1
        /\ log.new_episode[1].before = log.pre.num_episode
        /\ num_episode = log.pre.num_episode + 1
        /\ num_step = 0
        /\ a_curr = PolicyInitialAction
        /\ s_curr = EmptyEpoch
    /\ ~StartsEpisode => log.new_episode = <<>>

\* A reset that found the controller in the middle of an episode, its action moved
\* away from the initial one.
C1_Witness ==
    /\ IsReset
    /\ log.pre.num_episode = 1
    /\ log.pre.num_step > init_steps + 1
    /\ log.pre.a_curr # PolicyInitialAction
    /\ log.pre.s_curr # EmptyEpoch
    /\ num_episode = 2

\* C2: a tick of a critic after the warm-up that is not frozen trains the readout
\* exactly once, with the reservoir state of the non-simulated evaluation of
\* (s_curr, a_curr) and the TD-error of this tick; a warm-up tick and a frozen
\* tick do not train.
C2_TrainOncePerStep ==
    /\ StepTick =>
        /\ Len(log.train) = 1
        /\ Len(log.reservoir) >= 1
        /\ ~log.reservoir[1].sim
        /\ log.reservoir[1].s = log.pre.s_curr
        /\ log.reservoir[1].a = log.pre.a_curr
        /\ log.train[1].x = log.reservoir[1].x
        /\ log.step[1].err = Some(log.train[1].e)
        /\ beta = ReadoutTrain(log.pre.beta, log.reservoir[1].x, log.train[1].e)
    /\ (WarmupTick \/ FrozenTick) => log.train = <<>> /\ beta = log.pre.beta

\* A training tick whose update changed the weights.
C2_Witness == StepTick /\ Len(log.train) = 1 /\ beta # log.pre.beta

\* C3 as claimed: a fresh critic with warm-up length W has trained T - W times
\* after T > W ticks.
C3_AsClaimed ==
    (cls \in Critics /\ Fresh /\ ticks > init_steps) => trained = ticks - init_steps

\* C3: a fresh critic with warm-up length W has trained T - (W + 1) times after
\* T > W ticks: its first W + 1 ticks are warm-up ticks.
C3_TrainingCalls ==
    (cls \in Critics /\ Fresh) =>
        trained = IF ticks > init_steps THEN ticks - (init_steps + 1) ELSE 0

\* Warm-up length 1 and five ticks: three training calls.
C3_Witness ==
    cls \in Critics /\ Fresh /\ init_steps = 1 /\ ticks = 5 /\ trained = 3

\* C4: a critic step applies the reservoir exactly twice, first with
\* simulate=False on (s_curr, a_curr), then with simulate=True on (s_next, a_next);
\* the second application leaves the memory as the first left it, and two
\* consecutive simulated evaluations of the same input return the same state.
C4_SimulatedLookahead ==
    /\ StepTick =>
        /\ Len(log.reservoir) = 2
        /\ log.reservoir[1].k < log.reservoir[2].k
        /\ ~log.reservoir[1].sim
        /\ log.reservoir[1].s = log.pre.s_curr
        /\ log.reservoir[1].a = log.pre.a_curr
        /\ log.reservoir[2].sim
        /\ log.reservoir[2].s = log.epoch
        /\ log.reservoir[2].a = log.step[1].a_next
        /\ log.reservoir[2].mem = log.reservoir[1].mem
        /\ r_mem = log.reservoir[1].mem
    /\ cls \in Critics =>
        \A s \in Epochs :
            LET first == ADHDP_critic_eval(Self, s, a_curr, TRUE)
                second == ADHDP_critic_eval(first.w, s, a_curr, TRUE)
            IN  first.x = second.x /\ second.w.r_mem = r_mem

\* A critic step whose lookahead state differs from the state of the step taken.
C4_Witness ==
    /\ StepTick
    /\ Len(log.reservoir) = 2
    /\ log.reservoir[2].x # log.reservoir[1].x
    /\ r_mem = log.reservoir[1].x

C6_ActionBookkeeping ==
    /\ CycleTick =>
        /\ Len(log.step) = 1
        /\ a_curr = log.step[1].a_next
        /\ s_curr = log.epoch
        /\ Len(log.update) = 1
        /\ log.update[1].a = log.step[1].a_next
        /\ log.update[1].k > log.step[1].k
        /\ policy_action = log.step[1].a_next
    /\ WarmupTick =>
        /\ a_curr = log.pre.a_curr
        /\ log.update = <<>>
        /\ policy_action = log.pre.policy_action

\* A tick after the warm-up that changed the action.
C6_Witness == CycleTick /\ a_curr # log.pre.a_curr /\ Len(log.update) = 1

\* C7: num_episode never decreases; num_step never decreases except where
\* new_episode sets it to 0; every tick, in every mode, adds exactly 1 to it, so
\* that it counts the ticks since the last new_episode.
C7_Counters ==
    /\ num_step = ticks
    /\ num_episode >= log.pre.num_episode
    /\ IsTick => num_step = log.pre.num_step + 1 /\ num_episode = log.pre.num_episode
    /\ StartsEpisode => num_step = 0
    /\ ~StartsEpisode => num_step >= log.pre.num_step

\* A frozen tick of the second episode, counted.
C7_Witness ==
    /\ FrozenTick
    /\ num_episode = 2
    /\ num_step = log.pre.num_step + 1
    /\ num_step = ticks

\* C8 as claimed: tumbled_grace_start in NORMAL at any call boundary, then two
\* ticks and no other message, leaves has_tumbled set.
C8_AsClaimed ==
    (cls = "PuppyHDP" /\ grace # None /\ grace[1].ticks = 2) => has_tumbled

\* C8: tumbled_grace_start in NORMAL at a call boundary after the warm-up
\* (num_step > init_steps), then two ticks and no other message, leaves
\* has_tumbled set; after one such tick it is not yet set.
C8_GraceThenTwoTicks ==
    (cls = "PuppyHDP" /\ grace # None /\ ~grace[1].warm) =>
        /\ grace[1].ticks = 2 => has_tumbled
        /\ grace[1].ticks < 2 => ~has_tumbled

\* The second tick after the grace start has just set the flag.
C8_Witness ==
    /\ cls = "PuppyHDP" /\ IsTick
    /\ grace # None /\ ~grace[1].warm /\ grace[1].ticks = 2
    /\ ~log.pre.has_tumbled
    /\ has_tumbled

\* C9: a reset message, whatever state it finds, leaves
\* supervisor_tumbled_notice = 0, has_tumbled clear and num_step = 0, so the next
\* ticks are warm-up ticks: they neither train nor sample nor change the action.
C9_ResetReturnsToNormal ==
    /\ IsReset =>
        /\ supervisor_tumbled_notice = 0
        /\ ~has_tumbled
        /\ num_step = 0
    /\ (IsTick /\ log.pre.num_step = 0) =>
        /\ log.train = <<>>
        /\ log.hook = <<>>
        /\ log.step = <<>>
        /\ a_curr = log.pre.a_curr

\* A reset that found the critic frozen after the warm-up.
C9_Witness ==
    /\ IsReset
    /\ cls = "PuppyHDP"
    /\ log.pre.has_tumbled
    /\ log.pre.supervisor_tumbled_notice >= 3
    /\ log.pre.num_step > init_steps
    /\ ~has_tumbled

\* C10: once has_tumbled is set, every tick until the next new_episode returns
\* the zero action of the action's shape without applying the reservoir or
\* training the readout, and the flag stays set under every other message.
C10_FrozenUntilReset ==
    /\ (IsTick /\ log.pre.has_tumbled) =>
        /\ Len(log.step) = 1
        /\ log.step[1].a_next = [i \in 1..Len(log.pre.a_curr) |-> 0]
        /\ log.reservoir = <<>>
        /\ log.train = <<>>
        /\ beta = log.pre.beta
        /\ r_mem = log.pre.r_mem
    /\ (log.pre.has_tumbled /\ ~StartsEpisode) => has_tumbled

\* A tumbled_grace_start that found the flag set, and left it set.
C10_Witness ==
    /\ log.op = "event" /\ log.msg = "tumbled_grace_start"
    /\ log.pre.has_tumbled
    /\ has_tumbled

\* The handlers of the two messages with a defined effect.
IsNotice == log.op = "event" /\ log.msg \in {"reset", "tumbled_grace_start"}
\* The object after the message just handled is delivered once more.
Redelivered ==
    event_handler(Notified(Entered("event", EmptyEpoch, log.msg), log.msg), log.msg)

\* C11 as claimed: a reset or tumbled_grace_start delivered twice in succession
\* leaves the controller in the same state as delivered once.
C11_AsClaimed == IsNotice => Pickled(Redelivered) = Pickled(Self)

\* C11: a reset or tumbled_grace_start delivered twice in succession leaves
\* num_step, a_curr, s_curr, the notice, the tumbled flag, the readout, the
\* reservoir memory and the policy as delivered once; every reset adds 1 to
\* num_episode and replaces the recorder, and the sampler writes one "tumbled"
\* record for every tumbled_grace_start.
C11_RedeliveryKeepsAllButEpisode ==
    IsNotice =>
        /\ [Pickled(Redelivered) EXCEPT !.num_episode = num_episode,
                                        !.collector = collector] = Pickled(Self)
        /\ log.msg = "reset" =>
            /\ Redelivered.num_episode = num_episode + 1
            /\ Redelivered.collector \notin {None, collector}
            /\ Redelivered.log.record = <<>>
        /\ log.msg = "tumbled_grace_start" =>
            /\ Redelivered.num_episode = num_episode
            /\ Redelivered.collector = collector
            /\ Len(Redelivered.log.record) = IF cls = "OfflineCollector" THEN 1 ELSE 0
            /\ Len(log.record) = IF cls = "OfflineCollector" THEN 1 ELSE 0

\* A reset of a tumbled critic; a second reset would start a third episode.
C11_Witness ==
    /\ IsReset
    /\ cls = "PuppyHDP"
    /\ log.pre.has_tumbled
    /\ num_episode = 2
    /\ Redelivered.num_episode = 3

\* The handler of a message other than reset and tumbled_grace_start.
IsOtherMessage == log.op = "event" /\ log.msg \notin {"reset", "tumbled_grace_start"}

\* C12: a message other than reset and tumbled_grace_start (out_of_arena,
\* tumbled, an unknown one) leaves every field of the controller, its reservoir,
\* readout and policy as it found them, creates no recorder and writes no
\* record, in PuppyHDP and in OfflineCollector.
C12_OtherMessagesIgnored ==
    IsOtherMessage =>
        /\ Pickled(Self) = log.pre
        /\ log.record = <<>>
        /\ log.n = 0

\* A tumbled message during the grace period of the sampler, after the warm-up.
C12_Witness ==
    /\ IsOtherMessage
    /\ cls = "OfflineCollector"
    /\ log.msg = "tumbled"
    /\ supervisor_tumbled_notice = 2
    /\ num_step > init_steps
    /\ a_curr # PolicyInitialAction

IsSave == log.op = "save"
\* For a load, log.pre is the object that was pickled, as load finds it in the file.
IsLoad == log.op = "load"

\* C13 as claimed: the loaded controller has the readout weights and the action
\* of the saved one, num_episode one greater and num_step 0.
C13_AsClaimed ==
    IsLoad =>
        /\ beta = log.pre.beta
        /\ a_curr = log.pre.a_curr
        /\ num_episode = log.pre.num_episode + 1
        /\ num_step = 0

\* C13: the loaded controller has the readout weights and the policy of the saved
\* one, num_episode one greater and num_step 0; its a_curr is the policy's
\* initial action and its s_curr is empty, whatever they were when saved.
C13_RoundTrip ==
    IsLoad =>
        /\ beta = log.pre.beta
        /\ policy_action = log.pre.policy_action
        /\ a_curr = PolicyInitialAction
        /\ s_curr = EmptyEpoch
        /\ num_episode = log.pre.num_episode + 1
        /\ num_step = 0

\* A load of a critic saved after it had trained and moved its action.
C13_Witness ==
    /\ IsLoad
    /\ cls \in Critics
    /\ log.pre.num_step > init_steps + 1
    /\ log.pre.a_curr # PolicyInitialAction
    /\ log.pre.beta # InitialBeta
    /\ beta = log.pre.beta
    /\ num_episode = log.pre.num_episode + 1

\* C14: save writes the object with collector = None and every other field as it
\* is; when it returns the live object holds the collector it held before and
\* every other field unchanged, and the records of a later tick are written to
\* the collector the object holds.
C14_SaveWithoutCollector ==
    /\ IsSave =>
        /\ snapshot = Some([log.pre EXCEPT !.collector = None])
        /\ collector = log.pre.collector
        /\ Pickled(Self) = log.pre
        /\ log.n = 0
    /\ (IsTick /\ snapshot # None) =>
        \A i \in 1..Len(log.record) : log.record[i].coll = log.pre.collector

\* A save of a controller in the middle of an episode, holding a recorder.
C14_Witness ==
    /\ IsSave
    /\ collector # None
    /\ snapshot # None
    /\ snapshot[1].collector = None
    /\ snapshot[1].num_step = num_step
    /\ num_step > init_steps + 1

\* C15: every new_episode (constructor, reset, load) replaces the collector by a
\* newly created one; every other handler keeps the collector it found.  So
\* between two calls the object holds one collector, the last one created, and
\* every record is written to the collector created by the last new_episode.
C15_OneCollectorPerEpisode ==
    /\ collector = Some(n_collectors)
    /\ StartsEpisode =>
        /\ collector # log.pre.collector
        /\ log.record = <<>>
    /\ ~StartsEpisode =>
        /\ collector = log.pre.collector
        /\ \A i \in 1..Len(log.record) : log.record[i].coll = collector

\* A record of the second episode, written to the second collector.
C15_Witness ==
    /\ IsTick
    /\ num_episode = 2
    /\ collector = Some(2)
    /\ Len(log.record) = 1
    /\ log.record[1].coll = Some(2)

IsConstruct == log.op = "construct"
\* What ADHDP.__init__ compares the reservoir's input dimension with.
ExpectedInputDim == PolicyActionSpaceDim + PlantStateSpaceDim(cls)

\* C16: the constructor of a critic raises when reservoir.get_input_dim() differs
\* from policy.action_space_dim() + plant.state_space_dim(), and returns an object
\* when they are equal, reset_states is False and the initial action is a column
\* with at least one row; the stub reservoir and the plant of OfflineCollector
\* always pass.
C16_DimensionCheck ==
    /\ reservoir.input_dim # ExpectedInputDim => raised # None
    /\ (/\ reservoir.input_dim = ExpectedInputDim
        /\ reservoir.reset_states = FALSE
        /\ InitialActionShape[1] >= 1
        /\ InitialActionShape[2] = 1) => raised = None
    /\ cls = "OfflineCollector" =>
        /\ reservoir.input_dim = ExpectedInputDim
        /\ raised = None

\* A critic handed a reservoir one input wider than action plus state.
C16_Witness ==
    /\ IsConstruct
    /\ cls \in Critics
    /\ reservoir.input_dim = ExpectedInputDim + 1
    /\ reservoir.reset_states = FALSE
    /\ raised = Some(355)

\* C17: when the constructor raises on a dimension mismatch, new_episode has not
\* run: num_episode is 0, the reservoir has not been reset and no collector has
\* been created.
C17_FailsBeforeNewEpisode ==
    (raised # None /\ reservoir.input_dim # ExpectedInputDim) =>
        /\ num_episode = 0
        /\ log.new_episode = <<>>
        /\ log.reset = <<>>
        /\ collector = None
        /\ n_collectors = 0

\* A constructor that raised on the dimension check after new_episode had run.
C17_Witness ==
    /\ IsConstruct
    /\ raised = Some(355)
    /\ num_episode = 1
    /\ Len(log.reset) = 1
    /\ Len(log.new_episode) = 1
    /\ collector = Some(1)

\* C18: a warm-up tick of a critic, of either class and for every init_steps,
\* stores the epoch in s_curr and writes exactly one record, the epoch without
\* any critic field, and applies neither the reservoir nor the readout.
C18_WarmupRecordsRawEpoch ==
    WarmupTick =>
        /\ s_curr = log.epoch
        /\ Len(log.record) = 1
        /\ log.record[1].epoch = log.epoch
        /\ log.record[1].keys = {}
        /\ log.reservoir = <<>>
        /\ log.train = <<>>
        /\ r_mem = log.pre.r_mem

\* The third warm-up tick of a PuppyHDP with init_steps = 2: the reservoir was
\* applied and the record carries critic fields.
C18_Witness ==
    /\ WarmupTick
    /\ cls = "PuppyHDP"
    /\ num_step = 3
    /\ Len(log.reservoir) = 1
    /\ ~log.reservoir[1].sim
    /\ Len(log.record) = 1
    /\ log.record[1].keys = InitKeys

\* The values of a step: the readout of the two reservoir states with the weights
\* the tick found, and the rewards the step may have been handed.
J_curr == ReadoutApply(log.pre.beta, log.reservoir[1].x)
J_next == ReadoutApply(log.pre.beta, log.reservoir[2].x)
StepRewards ==
    IF cls = "PuppyHDP"
    THEN LET r == IF log.pre.supervisor_tumbled_notice > 1 /\ tumbled_reward # None
                  THEN tumbled_reward[1]
                  ELSE log.step[1].reward
         IN  {r + d : d \in Jitter}
    ELSE {log.step[1].reward}

Grad == ADHDP_critic_deriv(log.pre, log.reservoir[1].x)

\* C20: with one action dimension, constant alpha > 0 and the identity hook, a
\* step of a critic that has not tumbled returns a_next = a_curr + alpha * grad;
\* when the gradient is positive the action after the tick is strictly greater
\* than the action before it.
C20_GradientAscent ==
    StepTick =>
        /\ Len(log.pre.a_curr) = 1
        /\ Alpha > 0
        /\ log.step[1].a_next = <<log.pre.a_curr[1] + Alpha * Grad[1]>>
        /\ a_curr = log.step[1].a_next
        /\ Grad[1] > 0 => a_curr[1] > log.pre.a_curr[1]

\* The second of two steps with the same positive gradient, no tumble announced.
C20_Witness ==
    /\ StepTick
    /\ log.pre.supervisor_tumbled_notice = 0
    /\ Grad[1] > 0
    /\ log.pre.a_curr[1] = PolicyInitialAction[1] + Alpha * Grad[1]
    /\ a_curr[1] = PolicyInitialAction[1] + 2 * Alpha * Grad[1]

\* C21: whatever a_curr is, within the amplitude range or not, the action the
\* sampling hook returns has every component in [AmpMin, AmpMax] (0.2 to 2.0),
\* has a range of at most MaxSpread (0.4) if a component exceeds SpreadFrom
\* (1.0), and is not the all-zero candidate the loop starts from.
C21_HookReturnsWithinBounds ==
    \A i \in 1..Len(log.hook) :
        LET ret == log.hook[i].ret
        IN  /\ \A j \in 1..Len(ret) : ret[j] >= AmpMin /\ ret[j] <= AmpMax
            /\ (\E j \in 1..Len(ret) : ret[j] > SpreadFrom) =>
                   Max(ret) - Min(ret) <= MaxSpread
            /\ ret # [j \in 1..Len(ret) |-> 0]

\* The hook returned from an action above the amplitude range: a sample with a
\* component above SpreadFrom and the largest spread allowed.
C21_Witness ==
    /\ log.op = "hook"
    /\ Len(log.hook) = 1
    /\ \E j \in 1..Len(log.hook[1].a) : log.hook[1].a[j] > AmpMax
    /\ Max(log.hook[1].ret) > SpreadFrom
    /\ Ptp(log.hook[1].ret) = MaxSpread
    /\ a_curr = log.hook[1].ret

\* A tick of the sampler after the warm-up (its epoch is then not empty).
WalkTick == IsTick /\ cls = "OfflineCollector" /\ log.pre.num_step > init_steps

\* C22: in the sampler the notice is 1 after tumbled_grace_start and grows by 1
\* with every tick after the warm-up, so it numbers these ticks.  The first two
\* (notice 1 and 2 on entry) call the sampling hook and take its action; every
\* later one, until a reset, calls no hook and sets the action to zeros; each of
\* them writes exactly one record.
C22_WalkStopsAtThirdTick ==
    /\ (WalkTick /\ log.pre.supervisor_tumbled_notice >= 1) =>
        /\ supervisor_tumbled_notice = log.pre.supervisor_tumbled_notice + 1
        /\ Len(log.record) = 1
        /\ log.pre.supervisor_tumbled_notice <= 2 =>
            /\ Len(log.hook) = 1
            /\ a_curr = log.hook[1].ret
        /\ log.pre.supervisor_tumbled_notice >= 3 =>
            /\ log.hook = <<>>
            /\ a_curr = [i \in 1..Len(log.pre.a_curr) |-> 0]
    /\ (cls = "OfflineCollector" /\ grace # None /\ ~grace[1].warm) =>
        /\ grace[1].ticks < 2 => supervisor_tumbled_notice = 1 + grace[1].ticks
        /\ grace[1].ticks = 2 => supervisor_tumbled_notice >= 3

\* The third tick after a tumbled_grace_start that came after the warm-up.
C22_Witness ==
    /\ WalkTick
    /\ grace # None /\ ~grace[1].warm
    /\ log.pre.supervisor_tumbled_notice = 3
    /\ log.pre.a_curr # [i \in 1..Len(log.pre.a_curr) |-> 0]
    /\ a_curr = [i \in 1..Len(log.pre.a_curr) |-> 0]
    /\ log.hook = <<>>
    /\ Len(log.record) = 1

\* The fields of the record of a walking tick of the sampler.
WalkKeys == {"a_curr", "a_next"}
\* A tick of the sampler that forces the action to zero.
ForcedTick == WalkTick /\ log.pre.supervisor_tumbled_notice > 2

\* C23: every record the sampler writes on a tick that forces the action to zero
\* carries a tumble marker, a field the records of walking ticks do not carry.
C23_ForcedTickMarked ==
    ForcedTick =>
        \A i \in 1..Len(log.record) : log.record[i].keys \ WalkKeys # {}

\* A forced tick whose record has the fields of a walking tick and no other.
C23_Witness ==
    /\ ForcedTick
    /\ a_curr = [i \in 1..Len(log.pre.a_curr) |-> 0]
    /\ Len(log.record) = 1
    /\ log.record[1].keys = WalkKeys

\* A tick of the sampler with the empty epoch.
EmptyTick == IsTick /\ cls = "OfflineCollector" /\ log.epoch = EmptyEpoch

\* C24: a tick of the sampler with the empty epoch adds 1 to num_step and writes
\* one record, the empty epoch with the field init_step; a_curr, the notice,
\* num_episode and every other field stay as they were, the sampling hook is not
\* called and policy.update is not called.
C24_EmptyEpochOnlyCounts ==
    EmptyTick =>
        /\ num_step = log.pre.num_step + 1
        /\ [Pickled(Self) EXCEPT !.num_step = log.pre.num_step] = log.pre
        /\ Len(log.record) = 1
        /\ log.record[1].epoch = EmptyEpoch
        /\ log.record[1].keys = {"init_step"}
        /\ log.hook = <<>>
        /\ log.update = <<>>
        /\ log.n = 1

\* The empty epoch of the second episode, delivered after a tumbled_grace_start.
C24_Witness ==
    /\ EmptyTick
    /\ num_episode = 2
    /\ num_step = 1
    /\ supervisor_tumbled_notice = 1
    /\ Len(log.record) = 1

\* A tick of PuppyHDP after the warm-up that finds the notice at 2 or more and
\* the tumbled flag not yet set.
ConfirmingTick ==
    StepTick /\ cls = "PuppyHDP" /\ log.pre.supervisor_tumbled_notice >= 2
\* The reward of that tick before the jitter: the override when one is
\* configured, the plant's reward of the stored state otherwise.
ConfirmedReward ==
    IF tumbled_reward # None THEN tumbled_reward[1] ELSE PlantReward(log.pre.s_curr)

\* C25: the first tick of PuppyHDP after the warm-up that is entered with the
\* notice at 2 or more still runs one full critic step (two evaluations, one
\* training call, one record, the proposed action taken over); its reward is the
\* override when one is configured and the plant's reward otherwise, plus the
\* jitter in both cases; the tumbled flag is set on that tick with or without an
\* override.
C25_ConfirmingTickStillSteps ==
    ConfirmingTick =>
        /\ Len(log.reservoir) = 2
        /\ Len(log.train) = 1
        /\ Len(log.record) = 1
        /\ log.record[1].keys = StepKeys
        /\ a_curr = log.step[1].a_next
        /\ log.step[1].err = Some(log.train[1].e)
        /\ \E d \in Jitter :
               log.train[1].e = TDError(ConfirmedReward + d, Gamma, J_next, J_curr)
        /\ has_tumbled
        /\ supervisor_tumbled_notice = log.pre.supervisor_tumbled_notice + 1

\* The confirming tick of a controller without an override: it trains with the
\* plant's reward and sets the flag.
C25_Witness ==
    /\ ConfirmingTick
    /\ tumbled_reward = None
    /\ PlantReward(log.pre.s_curr) # 0
    /\ Len(log.train) = 1
    /\ has_tumbled

\* C26: one critic step runs in this order: the non-simulated evaluation of
\* (s_curr, a_curr), the gradient, a_next, the simulated evaluation of
\* (s_next, a_next), the error, the training call, the record. Both values are
\* computed with the weights the step found; the record carries the weights the
\* training call left.
C26_StepOrder ==
    StepTick =>
        /\ Len(log.reservoir) = 2 /\ Len(log.train) = 1 /\ Len(log.record) = 1
        /\ log.reservoir[1].k < log.reservoir[2].k
        /\ log.reservoir[2].k < log.train[1].k
        /\ log.train[1].k < log.record[1].k
        /\ ~log.reservoir[1].sim
        /\ log.reservoir[1].s = log.pre.s_curr
        /\ log.reservoir[1].a = log.pre.a_curr
        /\ log.reservoir[2].sim
        /\ log.reservoir[2].s = log.epoch
        /\ log.reservoir[2].a =
               [i \in 1..Len(log.pre.a_curr) |-> log.pre.a_curr[i] + Alpha * Grad[i]]
        /\ \E r \in StepRewards : log.train[1].e = TDError(r, Gamma, J_next, J_curr)
        /\ log.train[1].x = log.reservoir[1].x
        /\ beta = ReadoutTrain(log.pre.beta, log.train[1].x, log.train[1].e)
        /\ log.record[1].keys = StepKeys
        /\ log.record[1].readout = Some(beta)

\* A step whose training call changes the weights, and with them the value of
\* the simulated evaluation.
C26_Witness ==
    /\ StepTick
    /\ beta # log.pre.beta
    /\ ReadoutApply(beta, log.reservoir[2].x) # J_next
    /\ log.reservoir[2].a # log.pre.a_curr
    /\ log.record[1].readout = Some(beta)

\* C27: every record a tick forwards to the recorder is forwarded with the time
\* range (time_start_ms, time_end_ms, step_size_ms) that tick was called with.
C27_RecordsCarryTickTime ==
    IsTick => \A i \in 1..Len(log.record) : Some(log.record[i].t) = log.time

\* A tick called with the range (20, 40, 1) whose record goes out with (0, 1, 1).
C27_Witness ==
    /\ IsTick
    /\ log.time = Some(<<20, 40, 1>>)
    /\ Len(log.record) = 1
    /\ log.record[1].t = <<0, 1, 1>>

\* A tumbled_grace_start has just been handled.
IsGraceStart == log.op = "event" /\ log.msg = "tumbled_grace_start"

\* C28: between any two calls of PuppyHDP the notice is 0, 1, 2 or 3, a set
\* tumbled flag comes with a notice of at least 1, and a notice of 0 comes with
\* a clear flag; a tumbled_grace_start leaves the notice at exactly 1 and the
\* flag as it found it.
C28_NoticeAndFlag ==
    (Built /\ cls = "PuppyHDP") =>
        /\ supervisor_tumbled_notice \in 0..3
        /\ has_tumbled => supervisor_tumbled_notice >= 1
        /\ supervisor_tumbled_notice = 0 => ~has_tumbled
        /\ IsGraceStart =>
              /\ supervisor_tumbled_notice = 1
              /\ has_tumbled = log.pre.has_tumbled

\* A tumbled_grace_start delivered to a frozen controller: the notice goes from 3
\* back to 1 and the flag stays set.
C28_Witness ==
    /\ cls = "PuppyHDP"
    /\ IsGraceStart
    /\ log.pre.supervisor_tumbled_notice = 3
    /\ log.pre.has_tumbled
    /\ supervisor_tumbled_notice = 1
    /\ has_tumbled

\* The zero action of the shape of the action a tick found.
ZeroAction == [i \in 1..Len(log.pre.a_curr) |-> 0]

\* C29: a tick that finds the tumbled flag set still does the bookkeeping around
\* the step: plant.reward is called once, on the stored state; a_curr becomes the
\* zero vector, s_curr the delivered epoch, num_step one more; policy.update is
\* called once, with the zero action.
C29_FrozenTickBookkeeping ==
    FrozenTick =>
        /\ Len(log.reward) = 1
        /\ log.reward[1].s = log.pre.s_curr
        /\ log.reward[1].value = PlantReward(log.pre.s_curr)
        /\ log.reward[1].k < log.step[1].k
        /\ a_curr = ZeroAction
        /\ s_curr = log.epoch
        /\ num_step = log.pre.num_step + 1
        /\ Len(log.update) = 1
        /\ log.update[1].a = ZeroAction
        /\ log.step[1].k < log.update[1].k
        /\ policy_action = ZeroAction

\* The first frozen tick: the action and the stored state both change.
C29_Witness ==
    /\ FrozenTick
    /\ log.pre.a_curr # ZeroAction
    /\ log.pre.s_curr # log.epoch
    /\ a_curr = ZeroAction
    /\ s_curr = log.epoch
    /\ Len(log.update) = 1

\* C30: for every warm-up length of 0 or more, plant.reward and
\* plant.state_input are never called on an empty state: a tick that computes a
\* reward or evaluates the critic comes after a warm-up tick of the same
\* episode, and the state it hands to the plant is not empty.
C30_NeverOnEmptyState ==
    CriticTick =>
        /\ (log.reward # <<>> \/ log.reservoir # <<>>) => log.pre.num_step >= 1
        /\ \A i \in 1..Len(log.reward) : log.reward[i].s # EmptyEpoch
        /\ \A i \in 1..Len(log.reservoir) : log.reservoir[i].s # EmptyEpoch

\* With no warm-up beyond the first tick, the second tick of an episode whose
\* first epoch was empty: the reward and the first evaluation are computed on
\* the empty state.
C30_Witness ==
    /\ StepTick
    /\ init_steps = 0
    /\ log.pre.num_step = 1
    /\ log.pre.s_curr = EmptyEpoch
    /\ log.reward[1].s = EmptyEpoch
    /\ log.reservoir[1].s = EmptyEpoch
    /\ log.epoch # EmptyEpoch

\* The hook is running; its candidate is acceptable; no draw around a_curr is.
Sampling == hook # None
Accepted == Sampling /\ ~Rejected(hook[1].a_next)
Stuck == Sampling /\ ~Feasible(a_curr)

\* C31: the sampling hook never returns the candidate it starts from, so it
\* draws at least once; as soon as a draw is not rejected the next step is the
\* return of that draw; if some draw around a_curr is acceptable and the
\* sampling is fair the hook eventually returns; if none is, every step leaves
\* the hook running with no acceptable draw, so it never returns.
C31_HookTermination ==
    /\ [](Accepted => hook[1].draws >= 1)
    /\ [][Accepted => (hook' = None /\ a_curr' = hook[1].a_next)]_vars
    /\ [][(Sampling /\ ~Accepted) => hook' # None]_vars
    /\ (Sampling /\ Feasible(a_curr)) ~> (hook = None)
    /\ [][Stuck => Stuck']_vars

\* The second draw of a call is the first acceptable one: the hook is about to
\* return it.
C31_Witness ==
    /\ Accepted
    /\ hook[1].draws = 2
    /\ Feasible(a_curr)
    /\ Rejected(a_curr)
    /\ log.op = "hook"

====
